---- MODULE Spec2Model ----
(***************************************************************************)
(* A model of trade-rs: the limit-order-book matching engine               *)
(* (src/src/matching_engine/mod.rs) under the specification Spec, and the  *)
(* binance ingest session (src/src/api/binance/client.rs) under the        *)
(* specification SpecMDI, with the timeouts that keep the connection      *)
(* alive (on_open, on_frame, PING and EXPIRE) under the specification      *)
(* SpecTimer.  The engine state is the struct MatchingEngine;  *)
(* the only mutating operation is limit().  Options are encoded with a     *)
(* reserved value: index 0 is Option<Index>::None (arena indices start at  *)
(* 1), -1 is Option<EntryId>::None and Option<usize>::None, and a Link     *)
(* carries a `some` flag.                                                  *)
(***************************************************************************)
EXTENDS Integers, Sequences, FiniteSets, TLC

\* Price::max_value(), scaled down: valid prices are 1 .. PMax-1.
PMax == 3
\* Largest size of an incoming order.
MaxSize == 3
\* Number of limit() calls explored.
MaxOrders == 3
\* Number of well-typed trade and depth messages an ingest session receives.
MaxMsgs == 3
\* Largest update sequence number (U, u, lastUpdateId) the venue assigns.
MaxSeq == 3
\* Number of such messages in the runs that are checked for progress.
MaxPollMsgs == 2
\* Number of frames a connection receives.
MaxFrames == 7
\* Number of PING timeouts that fire on a connection.
MaxPings == 7

VARIABLES price_limits, entries, best_bid, best_ask, max_entry_id,
          last, pre, placed, totals,
          previous_u, book_snapshot_state, snd, out, wire, marks,
          timeout, conn

me_vars == <<price_limits, entries, best_bid, best_ask, max_entry_id,
             last, pre, placed, totals>>

mdi_vars == <<previous_u, book_snapshot_state, snd, out, wire, marks>>

timer_vars == <<timeout, conn>>

vars == <<me_vars, mdi_vars, timer_vars>>

Prices == 0 .. PMax

Side == {"Buy", "Sell"}

\* The orders the caller may submit: size > 0 and 0 < price < PMax.
Order == [price : 1 .. (PMax - 1), size : 1 .. MaxSize, side : Side]

NoIndex == 0

NoEntryId == -1

NoLink == [some |-> FALSE, head |-> NoIndex, tail |-> NoIndex]

Link(h, t) == [some |-> TRUE, head |-> h, tail |-> t]

\* A price that was never touched has no PriceLimit in the BTreeMap.
AbsentLimit == [present |-> FALSE, link |-> NoLink]

PriceLimit(l) == [present |-> TRUE, link |-> l]

BookEntry(s, n, i) == [used |-> TRUE, size |-> s, next |-> n, id |-> i]

Vacant == [used |-> FALSE, size |-> 0, next |-> NoIndex, id |-> NoEntryId]

(***************************************************************************)
(* The arena: slots addressed by stable indices, freed slots reused        *)
(* through a free list.                                                    *)
(***************************************************************************)
arena_new == [slots |-> <<>>, free |-> <<>>]

arena_alloc(ar, value) ==
    IF ar.free /= <<>>
    THEN [index |-> Head(ar.free),
          arena |-> [slots |-> [ar.slots EXCEPT ![Head(ar.free)] = value],
                     free  |-> Tail(ar.free)]]
    ELSE [index |-> Len(ar.slots) + 1,
          arena |-> [slots |-> Append(ar.slots, value), free |-> <<>>]]

arena_free(ar, index) ==
    [slots |-> [ar.slots EXCEPT ![index] = Vacant],
     free  |-> <<index>> \o ar.free]

arena_get(ar, index) == ar.slots[index]

arena_set(ar, index, value) == [ar EXCEPT !.slots[index] = value]

(***************************************************************************)
(* Executor::exec: cross an order of size `size` through one price limit.  *)
(* `log` records, in execution order, each entry touched: its id, the      *)
(* amount taken from it, whether it was exhausted and freed, and whether   *)
(* its slot was allocated when exec reached it.                            *)
(***************************************************************************)
\* exec that leaves the exhausted entries in the arena.
RECURSIVE exec_loop_no_free(_, _, _, _, _)
exec_loop_no_free(ar, maybe_index, size, price, log) ==
    IF maybe_index = NoIndex
    THEN [arena |-> ar, maybe_index |-> NoIndex, size |-> size, log |-> log]
    ELSE LET entry == arena_get(ar, maybe_index) IN
         IF entry.size <= size
         THEN exec_loop_no_free(
                  arena_set(ar, maybe_index, [entry EXCEPT !.size = 0]),
                  entry.next,
                  size - entry.size,
                  price,
                  Append(log, [price |-> price, id |-> entry.id,
                               amount |-> entry.size, exhausted |-> TRUE,
                               allocated |-> entry.used]))
         ELSE [arena |-> arena_set(ar, maybe_index,
                                   [entry EXCEPT !.size = entry.size - size]),
               maybe_index |-> maybe_index,
               size |-> 0,
               log |-> Append(log, [price |-> price, id |-> entry.id,
                                    amount |-> size, exhausted |-> FALSE,
                                    allocated |-> entry.used])]

RECURSIVE exec_loop(_, _, _, _, _)
exec_loop(ar, maybe_index, size, price, log) ==
    IF maybe_index = NoIndex
    THEN [arena |-> ar, maybe_index |-> NoIndex, size |-> size, log |-> log]
    ELSE LET entry == arena_get(ar, maybe_index) IN
         IF entry.size <= size
         THEN exec_loop(
                  arena_free(arena_set(ar, maybe_index, [entry EXCEPT !.size = 0]),
                             maybe_index),
                  entry.next,
                  size - entry.size,
                  price,
                  Append(log, [price |-> price, id |-> entry.id,
                               amount |-> entry.size, exhausted |-> TRUE,
                               allocated |-> entry.used]))
         ELSE [arena |-> arena_set(ar, maybe_index,
                                   [entry EXCEPT !.size = entry.size - size]),
               maybe_index |-> maybe_index,
               size |-> 0,
               log |-> Append(log, [price |-> price, id |-> entry.id,
                                    amount |-> size, exhausted |-> FALSE,
                                    allocated |-> entry.used])]

exec(ar, link, size, price, log) == exec_loop(ar, link.head, size, price, log)

(***************************************************************************)
(* BTreeMap::range_mut over the inclusive bounds [lo, hi]: the prices that *)
(* have a PriceLimit, ascending; rev() reverses the iteration.             *)
(***************************************************************************)
RECURSIVE range_mut(_, _, _)
range_mut(pl, lo, hi) ==
    IF lo > hi THEN <<>>
    ELSE (IF pl[lo].present THEN <<lo>> ELSE <<>>) \o range_mut(pl, lo + 1, hi)

rev(s) == [i \in 1 .. Len(s) |-> s[Len(s) + 1 - i]]

(***************************************************************************)
(* Executor::exec_range: cross the order through the price limits of       *)
(* `range`, in that order.  `filled` is FALSE for ExecResult::NotExecuted  *)
(* and TRUE for ExecResult::Filled(order with the remaining `size`).       *)
(***************************************************************************)
\* exec_range that leaves the head of a partly consumed limit where it was.
RECURSIVE exec_range_loop_stale_head(_, _, _, _, _, _, _)
exec_range_loop_stale_head(ar, pl, order, size, range, filled, log) ==
    IF range = <<>>
    THEN [new_price |-> IF order.side = "Buy" THEN order.price + 1
                                              ELSE order.price - 1,
          filled |-> filled, size |-> size,
          arena |-> ar, price_limits |-> pl, log |-> log]
    ELSE LET price == Head(range)
             limit == pl[price]
         IN  IF limit.link.some
             THEN LET r == exec(ar, limit.link, size, price, log) IN
                  IF r.maybe_index /= NoIndex
                  THEN [new_price |-> price, filled |-> TRUE, size |-> r.size,
                        arena |-> r.arena, price_limits |-> pl, log |-> r.log]
                  ELSE exec_range_loop_stale_head(
                           r.arena, [pl EXCEPT ![price].link = NoLink],
                           order, r.size, Tail(range), TRUE, r.log)
             ELSE exec_range_loop_stale_head(ar, pl, order, size, Tail(range),
                                             filled, log)

RECURSIVE exec_range_loop(_, _, _, _, _, _, _)
exec_range_loop(ar, pl, order, size, range, filled, log) ==
    IF range = <<>>
    THEN [new_price |-> IF order.side = "Buy" THEN order.price + 1
                                              ELSE order.price - 1,
          filled |-> filled, size |-> size,
          arena |-> ar, price_limits |-> pl, log |-> log]
    ELSE LET price == Head(range)
             limit == pl[price]
         IN  IF limit.link.some
             THEN LET r == exec(ar, limit.link, size, price, log) IN
                  IF r.maybe_index /= NoIndex
                  THEN [new_price |-> price, filled |-> TRUE, size |-> r.size,
                        arena |-> r.arena,
                        price_limits |->
                            [pl EXCEPT ![price].link.head = r.maybe_index],
                        log |-> r.log]
                  ELSE exec_range_loop(r.arena,
                                       [pl EXCEPT ![price].link = NoLink],
                                       order, r.size, Tail(range), TRUE, r.log)
             ELSE exec_range_loop(ar, pl, order, size, Tail(range), filled, log)

exec_range(ar, pl, order, range) ==
    exec_range_loop(ar, pl, order, order.size, range, FALSE, <<>>)

(***************************************************************************)
(* MatchingEngine.  `self` is the record of the struct's fields.           *)
(***************************************************************************)
new ==
    [price_limits |-> [p \in Prices |-> AbsentLimit],
     entries      |-> arena_new,
     best_bid     |-> 0,
     best_ask     |-> PMax,
     max_entry_id |-> 0]

best_limits(self) == <<self.best_bid, self.best_ask>>

RECURSIVE size_at_limit_loop(_, _, _)
size_at_limit_loop(self, maybe_index, count) ==
    IF maybe_index = NoIndex THEN count
    ELSE LET entry == arena_get(self.entries, maybe_index) IN
         size_at_limit_loop(self, entry.next, count + entry.size)

\* size_at_limit that counts the head entry only.
size_at_limit_head_only(self, limit) ==
    IF limit.link.some
    THEN arena_get(self.entries, limit.link.head).size
    ELSE 0

size_at_limit(self, limit) ==
    IF limit.link.some THEN size_at_limit_loop(self, limit.link.head, 0) ELSE 0

size_at_price(self, price) ==
    IF self.price_limits[price].present
    THEN size_at_limit(self, self.price_limits[price])
    ELSE 0

\* link_entry that does not advance max_entry_id.
link_entry_same_id(self, order) ==
    LET id == self.max_entry_id
        a  == arena_alloc(self.entries, BookEntry(order.size, NoIndex, id))
        index == a.index
        price_point == IF self.price_limits[order.price].present
                       THEN self.price_limits[order.price]
                       ELSE PriceLimit(NoLink)
    IN  IF price_point.link.some
        THEN LET tail == price_point.link.tail IN
             [self EXCEPT
                !.entries = arena_set(a.arena, tail,
                               [arena_get(a.arena, tail) EXCEPT !.next = index]),
                !.price_limits[order.price] =
                    PriceLimit(Link(price_point.link.head, index))]
        ELSE [self EXCEPT
                !.entries = a.arena,
                !.price_limits[order.price] = PriceLimit(Link(index, index))]

\* link_entry that puts the new entry at the head of the chain.
link_entry_push_front(self, order) ==
    LET id == self.max_entry_id
        price_point == IF self.price_limits[order.price].present
                       THEN self.price_limits[order.price]
                       ELSE PriceLimit(NoLink)
        a  == arena_alloc(self.entries,
                          BookEntry(order.size, price_point.link.head, id))
        index == a.index
    IN  [self EXCEPT
            !.max_entry_id = id + 1,
            !.entries = a.arena,
            !.price_limits[order.price] =
                PriceLimit(Link(index, IF price_point.link.some
                                       THEN price_point.link.tail ELSE index))]

\* link_entry that links the new entry after the tail but leaves link.tail on
\* the old tail.
link_entry_keeps_tail(self, order) ==
    LET id == self.max_entry_id
        a  == arena_alloc(self.entries, BookEntry(order.size, NoIndex, id))
        index == a.index
        price_point == IF self.price_limits[order.price].present
                       THEN self.price_limits[order.price]
                       ELSE PriceLimit(NoLink)
    IN  IF price_point.link.some
        THEN LET tail == price_point.link.tail IN
             [self EXCEPT
                !.max_entry_id = id + 1,
                !.entries = arena_set(a.arena, tail,
                               [arena_get(a.arena, tail) EXCEPT !.next = index]),
                !.price_limits[order.price] = PriceLimit(price_point.link)]
        ELSE [self EXCEPT
                !.max_entry_id = id + 1,
                !.entries = a.arena,
                !.price_limits[order.price] = PriceLimit(Link(index, index))]

\* insert_order, first half: allocate the entry and append it to the chain
\* of its price limit (created on first use).
link_entry(self, order) ==
    LET id == self.max_entry_id
        a  == arena_alloc(self.entries, BookEntry(order.size, NoIndex, id))
        index == a.index
        price_point == IF self.price_limits[order.price].present
                       THEN self.price_limits[order.price]
                       ELSE PriceLimit(NoLink)
    IN  IF price_point.link.some
        THEN LET tail == price_point.link.tail IN
             [self EXCEPT
                !.max_entry_id = id + 1,
                !.entries = arena_set(a.arena, tail,
                               [arena_get(a.arena, tail) EXCEPT !.next = index]),
                !.price_limits[order.price] =
                    PriceLimit(Link(price_point.link.head, index))]
        ELSE [self EXCEPT
                !.max_entry_id = id + 1,
                !.entries = a.arena,
                !.price_limits[order.price] = PriceLimit(Link(index, index))]

\* update_best with the comparisons reversed.
update_best_reversed(self, order) ==
    IF order.side = "Buy" /\ order.price < self.best_bid
    THEN [self EXCEPT !.best_bid = order.price]
    ELSE IF order.side = "Sell" /\ order.price > self.best_ask
    THEN [self EXCEPT !.best_ask = order.price]
    ELSE self

\* insert_order, second half: the inserted order may improve the best limit
\* of its side.
update_best(self, order) ==
    IF order.side = "Buy" /\ order.price > self.best_bid
    THEN [self EXCEPT !.best_bid = order.price]
    ELSE IF order.side = "Sell" /\ order.price < self.best_ask
    THEN [self EXCEPT !.best_ask = order.price]
    ELSE self

insert_order(self, order) ==
    [self |-> update_best(link_entry(self, order), order),
     id   |-> self.max_entry_id]

\* crossing_range with strict comparisons: an order at the opposite best price
\* is taken as not marketable.
crossing_range_strict(self, order) ==
    IF order.side = "Buy" /\ order.price > self.best_ask
    THEN [marketable |-> TRUE,
          range |-> range_mut(self.price_limits, self.best_ask, order.price)]
    ELSE IF order.side = "Sell" /\ order.price < self.best_bid
    THEN [marketable |-> TRUE,
          range |-> rev(range_mut(self.price_limits, order.price, self.best_bid))]
    ELSE [marketable |-> FALSE, range |-> <<>>]

\* crossing_range with the iteration orders exchanged: a buy walks the asks
\* from its own price down, a sell walks the bids from its own price up.
crossing_range_far_first(self, order) ==
    IF order.side = "Buy" /\ order.price >= self.best_ask
    THEN [marketable |-> TRUE,
          range |-> rev(range_mut(self.price_limits, self.best_ask, order.price))]
    ELSE IF order.side = "Sell" /\ order.price <= self.best_bid
    THEN [marketable |-> TRUE,
          range |-> range_mut(self.price_limits, order.price, self.best_bid)]
    ELSE [marketable |-> FALSE, range |-> <<>>]

\* crossing_range that does not stop at the price of the order: a buy walks
\* the asks up to the largest price, a sell the bids down to the smallest.
crossing_range_through(self, order) ==
    IF order.side = "Buy" /\ order.price >= self.best_ask
    THEN [marketable |-> TRUE,
          range |-> range_mut(self.price_limits, self.best_ask, PMax)]
    ELSE IF order.side = "Sell" /\ order.price <= self.best_bid
    THEN [marketable |-> TRUE,
          range |-> rev(range_mut(self.price_limits, 0, self.best_bid))]
    ELSE [marketable |-> FALSE, range |-> <<>>]

\* limit, crossing: the price range a marketable order crosses, in iteration
\* order; `marketable` is FALSE for the `_ => (0, NotExecuted)` arm.
crossing_range(self, order) ==
    IF order.side = "Buy" /\ order.price >= self.best_ask
    THEN [marketable |-> TRUE,
          range |-> range_mut(self.price_limits, self.best_ask, order.price)]
    ELSE IF order.side = "Sell" /\ order.price <= self.best_bid
    THEN [marketable |-> TRUE,
          range |-> rev(range_mut(self.price_limits, order.price, self.best_bid))]
    ELSE [marketable |-> FALSE, range |-> <<>>]

\* limit, repair: the first non-empty limit at or above new_price, else PMax.
RECURSIVE find_first(_, _)
find_first(pl, range) ==
    IF range = <<>> THEN -1
    ELSE IF pl[Head(range)].link.some THEN Head(range)
    ELSE find_first(pl, Tail(range))

\* find_best_ask without the scan for a non-empty limit.
find_best_ask_no_scan(pl, new_price) == new_price

find_best_ask(pl, new_price) ==
    LET best_price == find_first(pl, range_mut(pl, new_price, PMax)) IN
    IF best_price /= -1 THEN best_price ELSE PMax

\* find_best_bid without the scan for a non-empty limit.
find_best_bid_no_scan(pl, new_price) == new_price

\* limit, repair: the first non-empty limit at or below new_price, else 0.
find_best_bid(pl, new_price) ==
    LET best_price == find_first(pl, rev(range_mut(pl, 0, new_price))) IN
    IF best_price /= -1 THEN best_price ELSE 0

\* limit that inserts the whole order, not what remains of it, after crossing.
limit_insert_whole(self, order) ==
    LET c == crossing_range(self, order)
        x == IF c.marketable
             THEN exec_range(self.entries, self.price_limits, order, c.range)
             ELSE [new_price |-> 0, filled |-> FALSE, size |-> order.size,
                   arena |-> self.entries, price_limits |-> self.price_limits,
                   log |-> <<>>]
    IN  IF ~x.filled
        THEN LET i == insert_order(self, order) IN
             [self |-> i.self, ret |-> i.id, log |-> x.log]
        ELSE LET crossed == [self EXCEPT !.entries = x.arena,
                                         !.price_limits = x.price_limits]
                 repaired ==
                     IF order.side = "Buy"
                     THEN [crossed EXCEPT !.best_ask =
                              find_best_ask(crossed.price_limits, x.new_price)]
                     ELSE [crossed EXCEPT !.best_bid =
                              find_best_bid(crossed.price_limits, x.new_price)]
             IN  IF x.size > 0
                 THEN LET i == insert_order(repaired, order) IN
                      [self |-> i.self, ret |-> i.id, log |-> x.log]
                 ELSE [self |-> repaired, ret |-> NoEntryId, log |-> x.log]

\* limit that inserts an order that crossed nothing with size 1.
limit_not_executed_unit(self, order) ==
    LET c == crossing_range(self, order)
        x == IF c.marketable
             THEN exec_range(self.entries, self.price_limits, order, c.range)
             ELSE [new_price |-> 0, filled |-> FALSE, size |-> order.size,
                   arena |-> self.entries, price_limits |-> self.price_limits,
                   log |-> <<>>]
    IN  IF ~x.filled
        THEN LET i == insert_order(self, [order EXCEPT !.size = 1]) IN
             [self |-> i.self, ret |-> i.id, log |-> x.log]
        ELSE LET crossed == [self EXCEPT !.entries = x.arena,
                                         !.price_limits = x.price_limits]
                 repaired ==
                     IF order.side = "Buy"
                     THEN [crossed EXCEPT !.best_ask =
                              find_best_ask(crossed.price_limits, x.new_price)]
                     ELSE [crossed EXCEPT !.best_bid =
                              find_best_bid(crossed.price_limits, x.new_price)]
                 updated_order == [order EXCEPT !.size = x.size]
             IN  IF updated_order.size > 0
                 THEN LET i == insert_order(repaired, updated_order) IN
                      [self |-> i.self, ret |-> i.id, log |-> x.log]
                 ELSE [self |-> repaired, ret |-> NoEntryId, log |-> x.log]

\* limit that inserts what remains of a filled order even when nothing
\* remains.
limit_inserts_filled(self, order) ==
    LET c == crossing_range(self, order)
        x == IF c.marketable
             THEN exec_range(self.entries, self.price_limits, order, c.range)
             ELSE [new_price |-> 0, filled |-> FALSE, size |-> order.size,
                   arena |-> self.entries, price_limits |-> self.price_limits,
                   log |-> <<>>]
    IN  IF ~x.filled
        THEN LET i == insert_order(self, order) IN
             [self |-> i.self, ret |-> i.id, log |-> x.log]
        ELSE LET crossed == [self EXCEPT !.entries = x.arena,
                                         !.price_limits = x.price_limits]
                 repaired ==
                     IF order.side = "Buy"
                     THEN [crossed EXCEPT !.best_ask =
                              find_best_ask(crossed.price_limits, x.new_price)]
                     ELSE [crossed EXCEPT !.best_bid =
                              find_best_bid(crossed.price_limits, x.new_price)]
                 updated_order == [order EXCEPT !.size = x.size]
                 i == insert_order(repaired, updated_order)
             IN  [self |-> i.self, ret |-> i.id, log |-> x.log]

(***************************************************************************)
(* MatchingEngine::limit.  The result holds the engine after the call, the *)
(* returned Option<EntryId> and the log of the entries crossed.            *)
(***************************************************************************)
limit(self, order) ==
    LET c == crossing_range(self, order)
        x == IF c.marketable
             THEN exec_range(self.entries, self.price_limits, order, c.range)
             ELSE [new_price |-> 0, filled |-> FALSE, size |-> order.size,
                   arena |-> self.entries, price_limits |-> self.price_limits,
                   log |-> <<>>]
    IN  IF ~x.filled
        THEN LET i == insert_order(self, order) IN
             [self |-> i.self, ret |-> i.id, log |-> x.log]
        ELSE LET crossed == [self EXCEPT !.entries = x.arena,
                                         !.price_limits = x.price_limits]
                 repaired ==
                     IF order.side = "Buy"
                     THEN [crossed EXCEPT !.best_ask =
                              find_best_ask(crossed.price_limits, x.new_price)]
                     ELSE [crossed EXCEPT !.best_bid =
                              find_best_bid(crossed.price_limits, x.new_price)]
                 updated_order == [order EXCEPT !.size = x.size]
             IN  IF updated_order.size > 0
                 THEN LET i == insert_order(repaired, updated_order) IN
                      [self |-> i.self, ret |-> i.id, log |-> x.log]
                 ELSE [self |-> repaired, ret |-> NoEntryId, log |-> x.log]

(***************************************************************************)
(* The binance ingest session (src/src/api/binance/client.rs): the         *)
(* WebSocket Handler.  `self` is the record of the Handler's state:        *)
(*   previous_u           Option<usize>, NoU for None;                     *)
(*   book_snapshot_state  the variant (tag), the Receiver of the snapshot  *)
(*                        request (rcv) and the buffered events of Waiting;*)
(*   snd                  the notification channel to the consumer: what   *)
(*                        was sent, and whether the receiver is dropped;   *)
(*   out                  the ws::Sender: whether shutdown() was called,   *)
(*                        the timeout tokens that are armed, and whether   *)
(*                        a handler panicked.                              *)
(* A wire message is a record: `e` is the event type ("not_json" for a     *)
(* text that is not JSON), `typed` tells whether serde_json::from_value    *)
(* accepts it, `convertible` whether all its prices and sizes pass         *)
(* convert_unticked, `id` names its payload: the serial number of its      *)
(* arrival.                                                                *)
(***************************************************************************)
NoU == -1

PING == 1

EXPIRE == 2

BOOK_SNAPSHOT == 3

\* Option<Timeout>::None; the Timeout handles the connection hands out are
\* numbered from 1.
NoTimeout == 0

EventTypes == {"trade", "depthUpdate", "other", "not_json"}

\* The Receiver<Result<BinanceBookSnapshot, Error>> of the snapshot request:
\* nothing sent yet and the Sender alive (Pending), a Result in the channel
\* (Ready), or every Sender gone with nothing sent (Disconnected).
NoSnapshot == [ok |-> FALSE, lastUpdateId |-> 0, convertible |-> FALSE]

NoChannel == [state |-> "NoChannel", result |-> NoSnapshot]

channel == [state |-> "Pending", result |-> NoSnapshot]

BookSnapshotState(tag, rcv, events) ==
    [tag |-> tag, rcv |-> rcv, events |-> events]

\* Handler { .. } as built in BinanceStream::new.
handler_new ==
    [previous_u |-> NoU,
     book_snapshot_state |-> BookSnapshotState("None", NoChannel, <<>>),
     snd |-> [queue |-> <<>>, receiver_dropped |-> FALSE],
     out |-> [shutdown |-> FALSE, timeouts |-> {}, panicked |-> FALSE,
              closed |-> FALSE, pings |-> 0, expire |-> {}, handles |-> 0],
     timeout |-> NoTimeout]

\* Notification::Trade and Notification::LimitUpdates; `id` is the payload
\* (the message it was converted from, 0 for the book snapshot).
Trade(json) == [kind |-> "Trade", id |-> json.id]

LimitUpdatesNotif(id) == [kind |-> "LimitUpdates", id |-> id]

\* struct LimitUpdates { u, updates }
LimitUpdates(u, updates) == [u |-> u, updates |-> updates]

\* send that puts the notification at the front of the queue.
send_push_front(self, action) ==
    IF self.snd.receiver_dropped
    THEN [self EXCEPT !.out.shutdown = TRUE]
    ELSE [self EXCEPT !.snd.queue = <<action>> \o @]

\* send that ignores the error of unbounded_send.
send_ignores_error(self, action) ==
    IF self.snd.receiver_dropped THEN self
    ELSE [self EXCEPT !.snd.queue = Append(@, action)]

\* Handler::send
send(self, action) ==
    IF self.snd.receiver_dropped
    THEN [self EXCEPT !.out.shutdown = TRUE]
    ELSE [self EXCEPT !.snd.queue = Append(@, action)]

RECURSIVE send_all(_, _)
send_all(self, notifs) ==
    IF notifs = <<>> THEN self
    ELSE send_all(send(self, Head(notifs)), Tail(notifs))

\* Handler::parse_message: the handler after the call and the result,
\* Ok(Some(notif)), Ok(None) or Err(err).
Ok(notif) == [ok |-> TRUE, notif |-> notif, err |-> "none"]

OkNone == [ok |-> TRUE, notif |-> [kind |-> "None", id |-> 0], err |-> "none"]

Err(err) == [ok |-> FALSE, notif |-> [kind |-> "None", id |-> 0], err |-> err]

parse_message(self, json) ==
    IF json.e = "not_json"
    THEN [self |-> self, result |-> Err("json")]
    ELSE IF json.e = "trade"
    THEN IF ~json.typed THEN [self |-> self, result |-> Err("json")]
         ELSE IF ~json.convertible
         THEN [self |-> self, result |-> Err("conversion")]
         ELSE [self |-> self, result |-> Ok(Trade(json))]
    ELSE IF json.e = "depthUpdate"
    THEN IF ~json.typed THEN [self |-> self, result |-> Err("json")]
         ELSE IF self.previous_u /= NoU /\ self.previous_u + 1 /= json.U
         THEN [self |-> self, result |-> Err("sequence")]
         ELSE LET updated == [self EXCEPT !.previous_u = json.u] IN
              IF ~json.convertible
              THEN [self |-> updated, result |-> Err("conversion")]
              ELSE [self |-> updated,
                    result |-> Ok(LimitUpdatesNotif(json.id))]
    ELSE [self |-> self, result |-> OkNone]

\* passed_events.into_iter().filter(|update| update.u > lastUpdateId)
\*              .map(|update| Notification::LimitUpdates(update.updates))
RECURSIVE filter_passed(_, _)
filter_passed(passed_events, lastUpdateId) ==
    IF passed_events = <<>> THEN <<>>
    ELSE (IF Head(passed_events).u > lastUpdateId
          THEN <<LimitUpdatesNotif(Head(passed_events).updates)>>
          ELSE <<>>)
         \o filter_passed(Tail(passed_events), lastUpdateId)

\* Handler::process_book_snapshot.  A snapshot is the Result the request
\* thread sent: `ok` FALSE is Err, else lastUpdateId and whether the bids and
\* asks convert.
process_book_snapshot(self, snapshot, passed_events) ==
    IF ~snapshot.ok THEN [self |-> self, err |-> TRUE]
    ELSE IF ~snapshot.convertible THEN [self |-> self, err |-> TRUE]
    ELSE LET notifs == <<LimitUpdatesNotif(0)>>
                       \o filter_passed(passed_events, snapshot.lastUpdateId)
             sent == send_all(self, notifs)
         IN  [self |-> [sent EXCEPT !.book_snapshot_state =
                           BookSnapshotState("Ok", NoChannel, <<>>)],
              err |-> FALSE]

\* ws::Sender::ping, ws::Sender::close and ws::Sender::cancel as the
\* Handler uses them.  `out.timeouts` holds the tokens of the pending
\* timeouts whose handle the Handler does not keep, `out.expire` the handles
\* of the pending EXPIRE timeouts.
out_ping(self) == [self EXCEPT !.out.pings = @ + 1]

out_close(self) == [self EXCEPT !.out.closed = TRUE]

out_cancel(self, t) == [self EXCEPT !.out.expire = @ \ {t}]

\* on_new_timeout that keeps the previous EXPIRE timeout running.
on_new_timeout_no_cancel(self, event, t) ==
    IF event = EXPIRE THEN [self EXCEPT !.timeout = t] ELSE self

\* ws::Handler::on_new_timeout
on_new_timeout(self, event, t) ==
    IF event = EXPIRE
    THEN LET taken == IF self.timeout /= NoTimeout
                      THEN out_cancel(self, self.timeout)
                      ELSE self
         IN  [taken EXCEPT !.timeout = t]
    ELSE self

\* ws::Sender::timeout: the connection schedules the timeout and hands its
\* handle to on_new_timeout.
out_timeout(self, event) ==
    IF event = EXPIRE
    THEN LET t == self.out.handles + 1
         IN  on_new_timeout([self EXCEPT !.out.handles = t,
                                         !.out.expire = @ \cup {t}],
                            event, t)
    ELSE on_new_timeout([self EXCEPT !.out.timeouts = @ \cup {event}],
                        event, NoTimeout)

\* ws::Handler::on_open
on_open(self) == out_timeout(out_timeout(out_ping(self), PING), EXPIRE)

\* ws::Handler::on_frame
on_frame(self) == out_timeout(self, EXPIRE)

\* on_timeout that processes the snapshot it received even when the request
\* or the conversion failed.
on_timeout_ignores_error(self, event) ==
    LET state == self.book_snapshot_state
        fired == [self EXCEPT
                    !.out.timeouts = @ \ {event},
                    !.book_snapshot_state =
                        BookSnapshotState("None", NoChannel, <<>>)]
    IN  IF state.tag /= "Waiting"
        THEN [fired EXCEPT !.out.panicked = TRUE, !.out.shutdown = TRUE]
        ELSE IF state.rcv.state = "Disconnected"
        THEN [fired EXCEPT !.out.shutdown = TRUE]
        ELSE IF state.rcv.state = "Ready"
        THEN process_book_snapshot(
                 fired, [state.rcv.result EXCEPT !.ok = TRUE,
                                                 !.convertible = TRUE],
                 state.events).self
        ELSE [fired EXCEPT
                !.book_snapshot_state = state,
                !.out.timeouts = @ \cup {BOOK_SNAPSHOT}]

\* on_timeout that arms the timeout again after the snapshot was processed.
on_timeout_rearms_in_ok(self, event) ==
    LET state == self.book_snapshot_state
        fired == [self EXCEPT
                    !.out.timeouts = @ \ {event},
                    !.book_snapshot_state =
                        BookSnapshotState("None", NoChannel, <<>>)]
    IN  IF state.tag /= "Waiting"
        THEN [fired EXCEPT !.out.panicked = TRUE, !.out.shutdown = TRUE]
        ELSE IF state.rcv.state = "Disconnected"
        THEN [fired EXCEPT !.out.shutdown = TRUE]
        ELSE IF state.rcv.state = "Ready"
        THEN LET r == process_book_snapshot(fired, state.rcv.result,
                                            state.events)
             IN  IF r.err THEN [r.self EXCEPT !.out.shutdown = TRUE]
                 ELSE [r.self EXCEPT !.out.timeouts = @ \cup {BOOK_SNAPSHOT}]
        ELSE [fired EXCEPT
                !.book_snapshot_state = state,
                !.out.timeouts = @ \cup {BOOK_SNAPSHOT}]

\* on_timeout that does not arm the timeout again when the snapshot is not
\* there yet.
on_timeout_no_rearm(self, event) ==
    LET state == self.book_snapshot_state
        fired == [self EXCEPT
                    !.out.timeouts = @ \ {event},
                    !.book_snapshot_state =
                        BookSnapshotState("None", NoChannel, <<>>)]
    IN  IF state.tag /= "Waiting"
        THEN [fired EXCEPT !.out.panicked = TRUE, !.out.shutdown = TRUE]
        ELSE IF state.rcv.state = "Disconnected"
        THEN [fired EXCEPT !.out.shutdown = TRUE]
        ELSE IF state.rcv.state = "Ready"
        THEN LET r == process_book_snapshot(fired, state.rcv.result,
                                            state.events)
             IN  IF r.err THEN [r.self EXCEPT !.out.shutdown = TRUE]
                 ELSE r.self
        ELSE [fired EXCEPT !.book_snapshot_state = state]

\* on_timeout that leaves the session open when the Sender of the snapshot
\* has disconnected.
on_timeout_stays_open(self, event) ==
    LET state == self.book_snapshot_state
        fired == [self EXCEPT
                    !.out.timeouts = @ \ {event},
                    !.book_snapshot_state =
                        BookSnapshotState("None", NoChannel, <<>>)]
    IN  IF state.tag /= "Waiting"
        THEN [fired EXCEPT !.out.panicked = TRUE, !.out.shutdown = TRUE]
        ELSE IF state.rcv.state = "Disconnected"
        THEN fired
        ELSE IF state.rcv.state = "Ready"
        THEN LET r == process_book_snapshot(fired, state.rcv.result,
                                            state.events)
             IN  IF r.err THEN [r.self EXCEPT !.out.shutdown = TRUE]
                 ELSE r.self
        ELSE [fired EXCEPT
                !.book_snapshot_state = state,
                !.out.timeouts = @ \cup {BOOK_SNAPSHOT}]

\* ws::Handler::on_timeout: ping again, close, or poll the Receiver of the
\* book snapshot.
on_timeout(self, event) ==
    IF event = PING
    THEN out_timeout(out_ping([self EXCEPT !.out.timeouts = @ \ {event}]),
                     PING)
    ELSE IF event = EXPIRE
    THEN out_close(self)
    ELSE
    LET state == self.book_snapshot_state
        fired == [self EXCEPT
                    !.out.timeouts = @ \ {event},
                    !.book_snapshot_state =
                        BookSnapshotState("None", NoChannel, <<>>)]
    IN  IF state.tag /= "Waiting"
        THEN [fired EXCEPT !.out.panicked = TRUE, !.out.shutdown = TRUE]
        ELSE IF state.rcv.state = "Disconnected"
        THEN [fired EXCEPT !.out.shutdown = TRUE]
        ELSE IF state.rcv.state = "Ready"
        THEN LET r == process_book_snapshot(fired, state.rcv.result,
                                            state.events)
             IN  IF r.err THEN [r.self EXCEPT !.out.shutdown = TRUE]
                 ELSE r.self
        ELSE [fired EXCEPT
                !.book_snapshot_state = state,
                !.out.timeouts = @ \cup {BOOK_SNAPSHOT}]

\* on_message that shuts the connection down when parse_message returns Err.
on_message_err_shuts_down(self, json) ==
    IF json.e = "binary" THEN [self |-> self, result |-> OkNone]
    ELSE
    LET p == parse_message(self, json)
        state == p.self.book_snapshot_state
    IN  IF p.result.ok /\ p.result.notif.kind = "Trade"
        THEN [self |-> send(p.self, p.result.notif), result |-> p.result]
        ELSE IF p.result.ok /\ p.result.notif.kind = "LimitUpdates"
        THEN LET updates == p.result.notif.id IN
             IF state.tag = "None"
             THEN [self |-> [p.self EXCEPT
                      !.book_snapshot_state =
                          BookSnapshotState(
                              "Waiting", channel,
                              <<LimitUpdates(p.self.previous_u, updates)>>),
                      !.out.timeouts = @ \cup {BOOK_SNAPSHOT}],
                   result |-> p.result]
             ELSE IF state.tag = "Waiting"
             THEN [self |-> [p.self EXCEPT
                      !.book_snapshot_state.events =
                          Append(@, LimitUpdates(p.self.previous_u, updates))],
                   result |-> p.result]
             ELSE [self |-> send(p.self, p.result.notif), result |-> p.result]
        ELSE IF ~p.result.ok
        THEN [self |-> [p.self EXCEPT !.out.shutdown = TRUE],
              result |-> p.result]
        ELSE [self |-> p.self, result |-> p.result]

\* ws::Handler::on_message: the handler after the call and what
\* parse_message returned.
on_message(self, json) ==
    IF json.e = "binary" THEN [self |-> self, result |-> OkNone]
    ELSE
    LET p == parse_message(self, json)
        state == p.self.book_snapshot_state
    IN  IF p.result.ok /\ p.result.notif.kind = "Trade"
        THEN [self |-> send(p.self, p.result.notif), result |-> p.result]
        ELSE IF p.result.ok /\ p.result.notif.kind = "LimitUpdates"
        THEN LET updates == p.result.notif.id IN
             IF state.tag = "None"
             THEN [self |-> [p.self EXCEPT
                      !.book_snapshot_state =
                          BookSnapshotState(
                              "Waiting", channel,
                              <<LimitUpdates(p.self.previous_u, updates)>>),
                      !.out.timeouts = @ \cup {BOOK_SNAPSHOT}],
                   result |-> p.result]
             ELSE IF state.tag = "Waiting"
             THEN [self |-> [p.self EXCEPT
                      !.book_snapshot_state.events =
                          Append(@, LimitUpdates(p.self.previous_u, updates))],
                   result |-> p.result]
             ELSE [self |-> send(p.self, p.result.notif), result |-> p.result]
        ELSE [self |-> p.self, result |-> p.result]

(***************************************************************************)
(* The state machine: a fresh engine and any sequence of valid limit()     *)
(* calls.  Beside the engine, the state records what the properties speak  *)
(* of: `last` is the last call (its order, the returned value, the log of  *)
(* entries crossed, the size taken from the entries that were resting),    *)
(* `pre` the engine as it was before that call, `placed` the order (price, *)
(* side, submitted size) that came to rest under each id, and `totals` the *)
(* sums over all calls, with the number of orders that were marketable     *)
(* when submitted.                                                         *)
(***************************************************************************)
engine == [price_limits |-> price_limits, entries |-> entries,
           best_bid |-> best_bid, best_ask |-> best_ask,
           max_entry_id |-> max_entry_id]

\* The resting entries at a price, head first, as <<id, size>> records.
RECURSIVE chain_from(_, _, _)
chain_from(ar, maybe_index, fuel) ==
    IF maybe_index = NoIndex \/ fuel = 0 THEN <<>>
    ELSE LET entry == arena_get(ar, maybe_index) IN
         <<[id |-> entry.id, size |-> entry.size]>>
             \o chain_from(ar, entry.next, fuel - 1)

chain_at(self, price) ==
    IF self.price_limits[price].link.some
    THEN chain_from(self.entries, self.price_limits[price].link.head,
                    Len(self.entries.slots))
    ELSE <<>>

RECURSIVE sum_sizes(_)
sum_sizes(c) == IF c = <<>> THEN 0 ELSE Head(c).size + sum_sizes(Tail(c))

\* What the entries allocated in arena `was` have lost in arena `now`, slot by
\* slot from slot i on: an entry keeps its slot until it is freed.
RECURSIVE taken_from(_, _, _)
taken_from(was, now, i) ==
    IF i > Len(was.slots) THEN 0
    ELSE (IF ~was.slots[i].used THEN 0
          ELSE IF now.slots[i].used /\ now.slots[i].id = was.slots[i].id
          THEN was.slots[i].size - now.slots[i].size
          ELSE was.slots[i].size)
         + taken_from(was, now, i + 1)

\* What the log says the incoming order gave up, in all and at price p.
RECURSIVE sum_amounts(_)
sum_amounts(log) ==
    IF log = <<>> THEN 0 ELSE Head(log).amount + sum_amounts(Tail(log))

RECURSIVE sum_amounts_at(_, _)
sum_amounts_at(log, p) ==
    IF log = <<>> THEN 0
    ELSE (IF Head(log).price = p THEN Head(log).amount ELSE 0)
         + sum_amounts_at(Tail(log), p)

NoCall == [order |-> [price |-> 0, size |-> 0, side |-> "Buy"],
           ret |-> NoEntryId, log |-> <<>>, taken |-> 0]

InitMDI ==
    /\ previous_u = handler_new.previous_u
    /\ book_snapshot_state = handler_new.book_snapshot_state
    /\ snd = handler_new.snd
    /\ out = handler_new.out
    /\ timeout = handler_new.timeout
    /\ conn = [opened |-> FALSE, frames |-> 0, armed |-> <<>>,
               expired |-> -1]
    /\ wire = [received |-> 0, bad |-> FALSE, emits |-> FALSE,
               accepted |-> <<>>]
    /\ marks = [sequence |-> -1, conversion |-> -1, snapshot |-> -1,
                lastUpdateId |-> -1, received |-> -1, dropped |-> -1,
                fetches |-> 0, fetch_id |-> -1]

Init ==
    /\ price_limits = new.price_limits
    /\ entries = new.entries
    /\ best_bid = new.best_bid
    /\ best_ask = new.best_ask
    /\ max_entry_id = new.max_entry_id
    /\ last = NoCall
    /\ pre = new
    /\ placed = <<>>
    /\ totals = [calls |-> 0, rested |-> 0, incoming |-> 0, matched |-> 0,
                 marketable |-> 0,
                 inserted |-> [p \in Prices |-> 0],
                 consumed |-> [p \in Prices |-> 0]]
    /\ InitMDI

Limit(order) ==
    /\ totals.calls < MaxOrders
    /\ \E r \in {limit(engine, order)} :
       \E taken \in {taken_from(entries, r.self.entries, 1)} :
       /\ price_limits' = r.self.price_limits
       /\ entries' = r.self.entries
       /\ best_bid' = r.self.best_bid
       /\ best_ask' = r.self.best_ask
       /\ max_entry_id' = r.self.max_entry_id
       /\ last' = [order |-> order, ret |-> r.ret, log |-> r.log,
                   taken |-> taken]
       /\ pre' = engine
       /\ placed' = IF r.ret = NoEntryId THEN placed
                    ELSE (r.ret :> [price |-> order.price, side |-> order.side,
                                    size |-> order.size])
                             @@ placed
       /\ totals' =
            [calls    |-> totals.calls + 1,
             rested   |-> totals.rested + (IF r.ret = NoEntryId THEN 0 ELSE 1),
             incoming |-> totals.incoming + order.size,
             matched  |-> totals.matched + taken,
             marketable |-> totals.marketable
                            + (IF crossing_range(engine, order).marketable
                               THEN 1 ELSE 0),
             inserted |-> IF r.ret = NoEntryId THEN totals.inserted
                          ELSE [totals.inserted EXCEPT ![order.price] =
                                   @ + order.size - sum_amounts(r.log)],
             consumed |-> IF r.log = <<>> THEN totals.consumed
                          ELSE [p \in Prices |->
                                  totals.consumed[p] + sum_amounts_at(r.log, p)]]
    /\ UNCHANGED <<mdi_vars, timer_vars>>

Next == \E order \in Order : Limit(order)

Spec == Init /\ [][Next]_vars

(***************************************************************************)
(* The ingest session as a state machine: the venue sends messages, the    *)
(* BOOK_SNAPSHOT timeout fires, the snapshot request completes or its      *)
(* Sender goes away, the consumer drops its end of the channel.  Beside    *)
(* the Handler, the state records what the properties speak of: `wire` is  *)
(* the number of well-typed trade and depth messages received, whether the *)
(* last event was a message that is not one of these, whether the last     *)
(* event called for a notification to be sent, and the depth messages that *)
(* passed the sequence check; `marks` holds the length of the              *)
(* consumer's queue when a sequence error, a conversion error and a failed *)
(* snapshot were first met (-1: not met), the lastUpdateId of the snapshot *)
(* that was processed (-1: none), the number of messages received before   *)
(* it was, the queue length when the consumer went away (-1: it is         *)
(* there), the number of snapshot requests initiated and the message that  *)
(* initiated the first.                                                    *)
(***************************************************************************)
handler == [previous_u |-> previous_u,
            book_snapshot_state |-> book_snapshot_state,
            snd |-> snd, out |-> out, timeout |-> timeout]

\* Messages the venue may send; U <= u in a depth update.
Messages ==
    [e : {"trade"}, typed : {TRUE}, convertible : BOOLEAN,
     U : {0}, u : {0}, id : {0}]
    \cup {m \in [e : {"depthUpdate"}, typed : {TRUE}, convertible : BOOLEAN,
                 U : 1 .. MaxSeq, u : 1 .. MaxSeq, id : {0}] : m.U <= m.u}
    \cup [e : {"trade", "depthUpdate"}, typed : {FALSE}, convertible : {TRUE},
          U : {0}, u : {0}, id : {0}]
    \cup [e : {"other", "not_json", "binary"}, typed : {FALSE},
          convertible : {TRUE}, U : {0}, u : {0}, id : {0}]

\* What the snapshot request may send: Err, or a snapshot.
Snapshots ==
    {NoSnapshot}
    \cup [ok : {TRUE}, lastUpdateId : 0 .. MaxSeq, convertible : BOOLEAN]

well_typed(m) == m.e \in {"trade", "depthUpdate"} /\ m.typed

out_of_sequence(self, m) ==
    /\ m.e = "depthUpdate" /\ m.typed
    /\ self.previous_u /= NoU
    /\ self.previous_u + 1 /= m.U

mark(old, now) == IF old = -1 THEN now ELSE old

\* The message is one whose handling sends a notification: a trade, or a
\* depth update in sequence while the snapshot state is Ok, that converts.
message_to_emit(self, m) ==
    /\ well_typed(m) /\ m.convertible
    /\ \/ m.e = "trade"
       \/ /\ m.e = "depthUpdate"
          /\ ~out_of_sequence(self, m)
          /\ self.book_snapshot_state.tag = "Ok"

\* The call created the channel of a snapshot request and spawned the
\* thread that sends the request.
fetch_initiated(before, after) ==
    /\ before.book_snapshot_state.tag = "None"
    /\ after.book_snapshot_state.tag = "Waiting"
    /\ after.book_snapshot_state.rcv = channel

\* The poll finds a snapshot that converts: the reconciliation sends it.
snapshot_to_emit(self) ==
    /\ self.book_snapshot_state.tag = "Waiting"
    /\ self.book_snapshot_state.rcv.state = "Ready"
    /\ self.book_snapshot_state.rcv.result.ok
    /\ self.book_snapshot_state.rcv.result.convertible

OnMessage(m) ==
    /\ ~out.shutdown
    /\ well_typed(m) => wire.received < MaxMsgs
    /\ \E json \in {[m EXCEPT !.id = IF well_typed(m)
                                     THEN wire.received + 1 ELSE 0]} :
       \E r \in {on_message(handler, json)} :
       /\ previous_u' = r.self.previous_u
       /\ book_snapshot_state' = r.self.book_snapshot_state
       /\ snd' = r.self.snd
       /\ out' = r.self.out
       /\ wire' = [received |-> IF well_typed(m) THEN wire.received + 1
                                ELSE wire.received,
                   bad |-> ~well_typed(m),
                   emits |-> message_to_emit(handler, m),
                   accepted |-> IF r.self.previous_u /= previous_u
                                   \/ (r.result.ok
                                       /\ r.result.notif.kind = "LimitUpdates")
                                THEN Append(wire.accepted, json)
                                ELSE wire.accepted]
       /\ marks' = [marks EXCEPT
               !.sequence = IF out_of_sequence(handler, m)
                            THEN mark(@, Len(snd.queue)) ELSE @,
               !.conversion = IF well_typed(m) /\ ~m.convertible
                              THEN mark(@, Len(snd.queue)) ELSE @,
               !.fetches = IF fetch_initiated(handler, r.self)
                           THEN @ + 1 ELSE @,
               !.fetch_id = IF fetch_initiated(handler, r.self)
                            THEN mark(@, json.id) ELSE @]
    /\ UNCHANGED <<me_vars, timer_vars>>

OnTimeout ==
    /\ ~out.shutdown
    /\ BOOK_SNAPSHOT \in out.timeouts
    /\ \E r \in {on_timeout(handler, BOOK_SNAPSHOT)} :
       /\ previous_u' = r.previous_u
       /\ book_snapshot_state' = r.book_snapshot_state
       /\ snd' = r.snd
       /\ out' = r.out
    /\ marks' =
         LET rcv == book_snapshot_state.rcv IN
         IF rcv.state = "Disconnected"
            \/ (rcv.state = "Ready"
                /\ (~rcv.result.ok \/ ~rcv.result.convertible))
         THEN [marks EXCEPT !.snapshot = mark(@, Len(snd.queue))]
         ELSE IF rcv.state = "Ready"
         THEN [marks EXCEPT !.lastUpdateId = rcv.result.lastUpdateId,
                            !.received = wire.received]
         ELSE marks
    /\ wire' = [wire EXCEPT !.bad = FALSE,
                            !.emits = snapshot_to_emit(handler)]
    /\ UNCHANGED <<me_vars, timer_vars>>

\* The request thread sends its Result into the channel.
SnapshotCompletes(snapshot) ==
    /\ ~out.shutdown
    /\ book_snapshot_state.rcv.state = "Pending"
    /\ book_snapshot_state' =
           [book_snapshot_state EXCEPT
               !.rcv = [state |-> "Ready", result |-> snapshot]]
    /\ wire' = [wire EXCEPT !.bad = FALSE, !.emits = FALSE]
    /\ UNCHANGED <<previous_u, snd, out, marks, me_vars, timer_vars>>

\* The request thread ends without having sent anything.
SenderDisconnects ==
    /\ ~out.shutdown
    /\ book_snapshot_state.rcv.state = "Pending"
    /\ book_snapshot_state' =
           [book_snapshot_state EXCEPT !.rcv.state = "Disconnected"]
    /\ wire' = [wire EXCEPT !.bad = FALSE, !.emits = FALSE]
    /\ UNCHANGED <<previous_u, snd, out, marks, me_vars, timer_vars>>

\* The consumer drops the BinanceStream, hence the UnboundedReceiver.
DropReceiver ==
    /\ ~out.shutdown
    /\ ~snd.receiver_dropped
    /\ snd' = [snd EXCEPT !.receiver_dropped = TRUE]
    /\ wire' = [wire EXCEPT !.bad = FALSE, !.emits = FALSE]
    /\ marks' = [marks EXCEPT !.dropped = Len(snd.queue)]
    /\ UNCHANGED <<previous_u, book_snapshot_state, out, me_vars, timer_vars>>

NextMDI ==
    \/ \E m \in Messages : OnMessage(m)
    \/ OnTimeout
    \/ \E snapshot \in Snapshots : SnapshotCompletes(snapshot)
    \/ SenderDisconnects
    \/ DropReceiver

SpecMDI == Init /\ [][NextMDI]_vars

\* The session with fewer messages, for the properties of progress.
NextMDIFair ==
    \/ \E m \in Messages : wire.received < MaxPollMsgs /\ OnMessage(m)
    \/ OnTimeout
    \/ \E snapshot \in Snapshots : SnapshotCompletes(snapshot)
    \/ SenderDisconnects
    \/ DropReceiver

\* The connection fires a timeout that was armed: the poll of the snapshot
\* is not put off for ever.
SpecMDIFair == Init /\ [][NextMDIFair]_vars /\ WF_vars(OnTimeout)

(***************************************************************************)
(* The timeouts that keep the connection alive: the connection opens,      *)
(* frames arrive, the PING timeout and a pending EXPIRE timeout fire.      *)
(* `conn` records what the connection saw: whether it opened, the number   *)
(* of frames it delivered, for every EXPIRE handle it handed out the       *)
(* number of frames delivered before the timeout was scheduled, and that   *)
(* number for the EXPIRE timeout that fired (-1: none fired).  Nothing is  *)
(* delivered after the close.                                              *)
(***************************************************************************)
\* The handles scheduled by a call are armed at the current frame count.
armed_by(self, frames) ==
    conn.armed \o [h \in 1 .. (self.out.handles - Len(conn.armed)) |-> frames]

OnOpen ==
    /\ ~conn.opened
    /\ \E self \in {on_open(handler)} :
       /\ out' = self.out
       /\ timeout' = self.timeout
       /\ conn' = [conn EXCEPT !.opened = TRUE,
                               !.armed = armed_by(self, conn.frames)]
    /\ UNCHANGED <<previous_u, book_snapshot_state, snd, wire, marks, me_vars>>

OnFrame ==
    /\ conn.opened /\ ~out.closed
    /\ conn.frames < MaxFrames
    /\ \E self \in {on_frame(handler)} :
       /\ out' = self.out
       /\ timeout' = self.timeout
       /\ conn' = [conn EXCEPT !.frames = @ + 1,
                               !.armed = armed_by(self, conn.frames + 1)]
    /\ UNCHANGED <<previous_u, book_snapshot_state, snd, wire, marks, me_vars>>

OnTimeoutPing ==
    /\ conn.opened /\ ~out.closed
    /\ PING \in out.timeouts
    /\ out.pings <= MaxPings
    /\ \E self \in {on_timeout(handler, PING)} :
       /\ out' = self.out
       /\ timeout' = self.timeout
       /\ conn' = [conn EXCEPT !.armed = armed_by(self, conn.frames)]
    /\ UNCHANGED <<previous_u, book_snapshot_state, snd, wire, marks, me_vars>>

\* The EXPIRE timeout with handle t fires.
OnTimeoutExpire(t) ==
    /\ conn.opened /\ ~out.closed
    /\ t \in out.expire
    /\ \E self \in {on_timeout([handler EXCEPT !.out.expire = @ \ {t}],
                                EXPIRE)} :
       /\ out' = self.out
       /\ timeout' = self.timeout
       /\ conn' = [conn EXCEPT !.expired = conn.armed[t],
                               !.armed = armed_by(self, conn.frames)]
    /\ UNCHANGED <<previous_u, book_snapshot_state, snd, wire, marks, me_vars>>

NextTimer ==
    \/ OnOpen
    \/ OnFrame
    \/ OnTimeoutPing
    \/ \E t \in out.expire : OnTimeoutExpire(t)

SpecTimer == Init /\ [][NextTimer]_vars

(***************************************************************************)
(* Views of the state used by the properties.                              *)
(***************************************************************************)
called == totals.calls > 0

\* The last call crossed resting liquidity: it took a positive amount.
last_crossed == called /\ \E k \in 1 .. Len(last.log) : last.log[k].amount > 0

non_empty(price) ==
    /\ price_limits[price].present
    /\ price_limits[price].link.some
    /\ Len(chain_at(engine, price)) >= 1
    /\ arena_get(entries, price_limits[price].link.head).used

\* C1: after every limit() call of a sequence of valid orders on a fresh
\* engine the book is not crossed: best_bid < best_ask.
C1_NotCrossed == best_bid < best_ask

\* A residual was inserted after crossing, next to a remaining opposite side.
C1_Witness ==
    /\ last_crossed
    /\ last.ret /= NoEntryId
    /\ best_bid /= 0
    /\ best_ask /= PMax

\* C2: after every limit() call, a best bid other than 0 and a best ask other
\* than PMax name a price limit with at least one resting entry.
C2_BestLimitsNonEmpty ==
    /\ best_bid /= 0 => non_empty(best_bid)
    /\ best_ask /= PMax => non_empty(best_ask)

\* A crossing drained the best limit and the repair found another one.
C2_Witness ==
    /\ last_crossed
    /\ \/ /\ last.order.side = "Buy"
          /\ best_ask /= PMax
          /\ best_ask > pre.best_ask
       \/ /\ last.order.side = "Sell"
          /\ best_bid /= 0
          /\ best_bid < pre.best_bid

\* C3: after every limit() call, no price strictly between best_bid and
\* best_ask has a non-empty price limit.
C3_SpreadEmpty ==
    \A p \in Prices :
        (best_bid < p /\ p < best_ask) => ~price_limits[p].link.some

\* The spread holds a price limit that was used before and is now empty,
\* below a best ask or above a best bid that rests in the book.
C3_Witness ==
    /\ best_bid /= 0 \/ best_ask /= PMax
    /\ \E p \in Prices :
          best_bid < p /\ p < best_ask /\ price_limits[p].present

\* The position of the first record of the log from which `id` was exhausted
\* (0 if there is none).
exhausted_at(log, id) ==
    IF \E k \in 1 .. Len(log) : log[k].id = id /\ log[k].exhausted
    THEN CHOOSE k \in 1 .. Len(log) :
            /\ log[k].id = id /\ log[k].exhausted
            /\ \A j \in 1 .. (k - 1) : ~(log[j].id = id /\ log[j].exhausted)
    ELSE 0

\* Entry e of the book before the call was consumed whole, and removed from
\* the chain of `price`, before position k of the log.
drained_before(e, price, k) ==
    LET j == exhausted_at(last.log, e.id) IN
    /\ j /= 0
    /\ j < k
    /\ last.log[j].amount = e.size
    /\ last.log[j].price = price
    /\ \A i \in 1 .. Len(chain_at(engine, price)) :
          chain_at(engine, price)[i].id /= e.id

\* C4: within one price limit the resting entries are ordered head to tail by
\* strictly increasing id, and a crossing order takes size from an entry only
\* after every entry with a smaller id at that price was consumed whole and
\* removed.
C4_TimePriority ==
    /\ \A p \in Prices :
          LET c == chain_at(engine, p) IN
          \A i, j \in 1 .. Len(c) : i < j => c[i].id < c[j].id
    /\ called =>
          \A k \in 1 .. Len(last.log) :
             last.log[k].amount > 0 =>
                LET p == last.log[k].price
                    c == chain_at(pre, p)
                IN  /\ \E i \in 1 .. Len(c) : c[i].id = last.log[k].id
                    /\ \A i \in 1 .. Len(c) :
                          c[i].id < last.log[k].id =>
                              drained_before(c[i], p, k)

\* The call consumed the oldest entry of a price and then took from the next.
C4_Witness ==
    /\ called
    /\ \E j, k \in 1 .. Len(last.log) :
          /\ j < k
          /\ last.log[j].price = last.log[k].price
          /\ last.log[j].amount > 0
          /\ last.log[k].amount > 0
          /\ ~last.log[k].exhausted

\* The prices of the opposite side that are better than p for the last order.
better_prices(p) ==
    IF last.order.side = "Buy"
    THEN {q \in Prices : pre.best_ask <= q /\ q < p}
    ELSE {q \in Prices : p < q /\ q <= pre.best_bid}

\* C5: a marketable buy takes size at ask price p only after every non-empty
\* ask limit below p was drained; a marketable sell takes size at bid price p
\* only after every non-empty bid limit above p was drained.
C5_PricePriority ==
    called =>
       \A k \in 1 .. Len(last.log) :
          last.log[k].amount > 0 =>
             \A q \in better_prices(last.log[k].price) :
                /\ \A i \in 1 .. Len(chain_at(pre, q)) :
                      drained_before(chain_at(pre, q)[i], q, k)
                /\ ~price_limits[q].link.some

\* The call took size at two prices.
C5_Witness ==
    /\ called
    /\ \E j, k \in 1 .. Len(last.log) :
          /\ last.log[j].price /= last.log[k].price
          /\ last.log[j].amount > 0
          /\ last.log[k].amount > 0

RECURSIVE total_resting(_, _)
total_resting(self, p) ==
    IF p > PMax THEN 0
    ELSE size_at_price(self, p) + total_resting(self, p + 1)

\* C6: the sum of all incoming order sizes equals the size resting in the
\* book plus twice the matched size, the matched size being what the resting
\* entries lost; no size is created or lost.
C6_Conservation ==
    totals.incoming = total_resting(engine, 0) + 2 * totals.matched

\* Orders were matched, the last one in part, and size rests in the book.
C6_Witness ==
    /\ totals.matched >= 2
    /\ total_resting(engine, 0) >= 2
    /\ last.taken > 0
    /\ last.ret /= NoEntryId

\* The ids resting in the book of an engine.
book_ids(self) ==
    UNION {LET c == chain_at(self, p) IN {c[i].id : i \in 1 .. Len(c)} :
              p \in Prices}

\* What the last order was not filled for.
last_unfilled == last.order.size - last.taken

\* C7: limit() returns Some(id) exactly when a positive part of the order was
\* left unfilled, and that part was inserted at the order's price under that
\* id; it returns None exactly when the order was filled completely, and then
\* no entry is added.
C7_ReturnValue ==
    called =>
       LET c == chain_at(engine, last.order.price)
           was == book_ids(pre)
           now == book_ids(engine)
       IN  /\ (last.ret /= NoEntryId) <=> (last_unfilled > 0)
           /\ (last.ret = NoEntryId) <=> (last_unfilled = 0)
           /\ last.ret /= NoEntryId =>
                 /\ c /= <<>>
                 /\ c[Len(c)] = [id |-> last.ret, size |-> last_unfilled]
                 /\ last.ret \notin was
                 /\ now \subseteq was \cup {last.ret}
           /\ last.ret = NoEntryId => now \subseteq was

\* An order was filled completely and the last one was filled in part and
\* rested.
C7_Witness ==
    /\ called
    /\ last.taken > 0
    /\ last.ret /= NoEntryId
    /\ totals.calls > totals.rested

\* C8: size_at_price(p) is the sum of the sizes of the entries chained at p;
\* it is 0 when p was never touched or its limit is empty; and it equals the
\* total inserted at p minus the total consumed at p, both measured on the
\* incoming orders.
C8_SizeAtPrice ==
    \A p \in Prices :
       LET size == size_at_price(engine, p) IN
       /\ size = sum_sizes(chain_at(engine, p))
       /\ (~price_limits[p].present \/ ~price_limits[p].link.some) => size = 0
       /\ size = totals.inserted[p] - totals.consumed[p]

\* A price holds two entries after size was consumed there.
C8_Witness ==
    \E p \in Prices :
       /\ Len(chain_at(engine, p)) >= 2
       /\ totals.consumed[p] > 0
       /\ totals.inserted[p] > size_at_price(engine, p)

\* The opposite side of the book before the last call: the prices the last
\* order could trade at, those within its limit price, and the size resting.
opposite_prices ==
    IF last.order.side = "Buy"
    THEN {q \in Prices : q >= pre.best_ask /\ q < PMax}
    ELSE {q \in Prices : q <= pre.best_bid /\ q > 0}

within_limit ==
    IF last.order.side = "Buy"
    THEN {q \in opposite_prices : q <= last.order.price}
    ELSE {q \in opposite_prices : q >= last.order.price}

RECURSIVE size_over(_, _, _)
size_over(self, ps, p) ==
    IF p > PMax THEN 0
    ELSE (IF p \in ps THEN size_at_price(self, p) ELSE 0)
         + size_over(self, ps, p + 1)

last_marketable ==
    /\ called
    /\ IF last.order.side = "Buy" THEN last.order.price >= pre.best_ask
                                  ELSE last.order.price <= pre.best_bid

\* Every price limit of ps is drained: it is empty, or it is the limit of the
\* last order's price and holds nothing that rested before the call.
drained(ps) ==
    \A q \in ps :
       IF q = last.order.price
       THEN \A i \in 1 .. Len(chain_at(engine, q)) :
               \A j \in 1 .. Len(chain_at(pre, q)) :
                  chain_at(engine, q)[i].id /= chain_at(pre, q)[j].id
       ELSE ~price_limits[q].link.some

\* The remainder of the last order rests alone at the order's price, which is
\* the best limit of the order's side.
remainder_rests(size) ==
    /\ last.ret /= NoEntryId
    /\ chain_at(engine, last.order.price) = <<[id |-> last.ret, size |-> size]>>
    /\ IF last.order.side = "Buy" THEN best_bid = last.order.price
                                  ELSE best_ask = last.order.price

\* C9 as stated: a marketable order larger than all that rests on the opposite
\* side drains that side, leaves the opposite best limit at its sentinel and
\* inserts the remainder at its own price, the new best limit of its side.
C9_DrainsOppositeSide ==
    (last_marketable
        /\ last.order.size > size_over(pre, opposite_prices, 0)) =>
       /\ drained(opposite_prices)
       /\ IF last.order.side = "Buy" THEN best_ask = PMax ELSE best_bid = 0
       /\ remainder_rests(last.order.size - size_over(pre, opposite_prices, 0))

\* C9, amended: a marketable order larger than all that rests on the opposite
\* side within its limit price drains those price limits, leaves the opposite
\* best limit at the nearest non-empty limit beyond its price, or at the
\* sentinel if there is none, and inserts the remainder at its own price, the
\* new best limit of its side.
C9_DrainsWithinLimit ==
    (last_marketable
        /\ last.order.size > size_over(pre, within_limit, 0)) =>
       LET beyond == {q \in opposite_prices \ within_limit :
                         price_limits[q].link.some}
       IN  /\ drained(within_limit)
           /\ \A q \in opposite_prices \ within_limit :
                 chain_at(engine, q) = chain_at(pre, q)
           /\ IF last.order.side = "Buy"
              THEN best_ask = IF beyond = {} THEN PMax
                              ELSE CHOOSE q \in beyond : \A x \in beyond : q <= x
              ELSE best_bid = IF beyond = {} THEN 0
                              ELSE CHOOSE q \in beyond : \A x \in beyond : q >= x
           /\ remainder_rests(last.order.size - size_over(pre, within_limit, 0))

\* An order drained what rested within its limit price and came to rest
\* while the opposite side still holds a limit beyond its price.
C9_Witness ==
    /\ last_marketable
    /\ last.order.size > size_over(pre, within_limit, 0)
    /\ last.taken > 0
    /\ last.ret /= NoEntryId
    /\ \E q \in opposite_prices \ within_limit : price_limits[q].link.some

\* The ids held by the allocated entries of the arena.
RECURSIVE arena_ids(_, _)
arena_ids(ar, i) ==
    IF i > Len(ar.slots) THEN <<>>
    ELSE (IF ar.slots[i].used THEN <<ar.slots[i].id>> ELSE <<>>)
         \o arena_ids(ar, i + 1)

\* C10: entry ids are unique and strictly increasing in allocation order: the
\* k-th order that comes to rest (counting from 0) receives id k, and an order
\* that is filled completely consumes no id.
C10_EntryIds ==
    /\ max_entry_id = totals.rested
    /\ (called /\ last.ret /= NoEntryId) =>
          /\ last.ret = totals.rested - 1
          /\ last.ret = pre.max_entry_id
          /\ max_entry_id = pre.max_entry_id + 1
    /\ (called /\ last.ret = NoEntryId) => max_entry_id = pre.max_entry_id
    /\ LET ids == arena_ids(entries, 1) IN
       /\ \A i, j \in 1 .. Len(ids) : i /= j => ids[i] /= ids[j]
       /\ \A i \in 1 .. Len(ids) : ids[i] < max_entry_id

\* An order came to rest after another was filled completely and yet another
\* had come to rest.
C10_Witness ==
    /\ called
    /\ last.ret >= 1
    /\ totals.calls > totals.rested

\* The arena indices met when following `next` from the head of the limit at
\* `price`, in order; the walk is cut after one step more than the arena has
\* slots, so a cycle shows as a repeated index.
RECURSIVE indices_from(_, _, _)
indices_from(ar, maybe_index, fuel) ==
    IF maybe_index = NoIndex \/ fuel = 0 THEN <<>>
    ELSE <<maybe_index>>
         \o (IF maybe_index \in 1 .. Len(ar.slots)
             THEN indices_from(ar, ar.slots[maybe_index].next, fuel - 1)
             ELSE <<>>)

indices_at(self, price) ==
    IF self.price_limits[price].link.some
    THEN indices_from(self.entries, self.price_limits[price].link.head,
                      Len(self.entries.slots) + 1)
    ELSE <<>>

allocated(ar, index) == index \in 1 .. Len(ar.slots) /\ ar.slots[index].used

\* C11: after any sequence of valid limit() calls, every arena index reachable
\* from the link of a price limit (its head, its tail, and every index met by
\* following next) is an allocated entry, and every entry the last call's
\* exec freed was allocated when it was freed.
C11_ReachableAllocated ==
    /\ \A p \in Prices :
          price_limits[p].link.some =>
              /\ allocated(entries, price_limits[p].link.head)
              /\ allocated(entries, price_limits[p].link.tail)
              /\ \A k \in 1 .. Len(indices_at(engine, p)) :
                    allocated(entries, indices_at(engine, p)[k])
    /\ \A k \in 1 .. Len(last.log) :
          last.log[k].exhausted => last.log[k].allocated

\* exec freed the head of a limit and stopped inside the next entry, which is
\* now the head of a chain that is still linked.
C11_Witness ==
    \E p \in Prices :
        /\ Len(last.log) >= 2
        /\ last.log[1].price = p /\ last.log[1].exhausted
        /\ last.log[2].price = p /\ ~last.log[2].exhausted
        /\ price_limits[p].link.some
        /\ entries.slots[price_limits[p].link.head].id = last.log[2].id
        /\ entries.free /= <<>>

no_repeat(s) == \A i, j \in 1 .. Len(s) : s[i] = s[j] => i = j

\* C12: after any sequence of valid limit() calls, in every non-empty price
\* limit the walk from link.head by next visits no entry twice and ends at
\* link.tail, whose next is None.
C12_HeadReachesTail ==
    \A p \in Prices :
        price_limits[p].link.some =>
            LET walk == indices_at(engine, p) IN
            /\ walk /= <<>>
            /\ no_repeat(walk)
            /\ walk[Len(walk)] = price_limits[p].link.tail
            /\ entries.slots[price_limits[p].link.tail].next = NoIndex

\* A limit held a chain of two entries or more, and the last call exhausted
\* its head and left it non-empty: the head moved along the chain.
C12_Witness ==
    \E p \in Prices :
        /\ pre.price_limits[p].link.some
        /\ pre.price_limits[p].link.head /= pre.price_limits[p].link.tail
        /\ last.log /= <<>> /\ last.log[1].price = p /\ last.log[1].exhausted
        /\ price_limits[p].link.some
        /\ price_limits[p].link.head /= pre.price_limits[p].link.head
        /\ price_limits[p].link.tail = pre.price_limits[p].link.tail

\* The resting entries of the book as <<price, size, id>> triples.
resting_triples(self) ==
    UNION {{<<p, chain_at(self, p)[k].size, chain_at(self, p)[k].id>> :
               k \in 1 .. Len(chain_at(self, p))} : p \in Prices}

RECURSIVE count_resting(_, _)
count_resting(self, p) ==
    IF p > PMax THEN 0
    ELSE Len(chain_at(self, p)) + count_resting(self, p + 1)

\* C13: in a sequence of valid limit() calls where no order was marketable
\* when submitted, every call returns Some(id) with id the number of earlier
\* calls, and the resting (price, size, id) triples are exactly the submitted
\* (price, size) pairs, one entry each, under the ids 0, 1, 2, ... in call
\* order.
C13_NoCrossingRestsAll ==
    (called /\ totals.marketable = 0) =>
        /\ last.ret = totals.calls - 1
        /\ DOMAIN placed = 0 .. (totals.calls - 1)
        /\ placed[last.ret].price = last.order.price
        /\ placed[last.ret].size = last.order.size
        /\ resting_triples(engine)
               = {<<placed[i].price, placed[i].size, i>> : i \in DOMAIN placed}
        /\ count_resting(engine, 0) = totals.calls

\* Three orders, none marketable, rest on both sides of the book.
C13_Witness ==
    /\ totals.calls >= 3
    /\ totals.marketable = 0
    /\ best_bid /= 0
    /\ best_ask /= PMax
    /\ \E p \in Prices : Len(chain_at(engine, p)) >= 2

(***************************************************************************)
(* Properties of the ingest session, under SpecMDI.                        *)
(***************************************************************************)
\* C14: once a depth message arrives whose U is not previous_u + 1 (with
\* previous_u set), the session is closed and the consumer's queue gets no
\* notification after those it held when the message arrived.
C14_GapClosesSession ==
    marks.sequence /= -1 =>
        /\ out.shutdown
        /\ Len(snd.queue) = marks.sequence

\* The payloads of the LimitUpdates notifications of a queue, in order.
RECURSIVE limit_updates(_)
limit_updates(queue) ==
    IF queue = <<>> THEN <<>>
    ELSE (IF Head(queue).kind = "LimitUpdates" THEN <<Head(queue).id>>
          ELSE <<>>)
         \o limit_updates(Tail(queue))

\* The payloads of the depth messages with u > lastUpdateId, in order.
RECURSIVE newer(_, _)
newer(deltas, lastUpdateId) ==
    IF deltas = <<>> THEN <<>>
    ELSE (IF Head(deltas).u > lastUpdateId THEN <<Head(deltas).id>> ELSE <<>>)
         \o newer(Tail(deltas), lastUpdateId)

\* The depth messages received were contiguous and convertible, and the
\* consumer is listening.
clean_stream ==
    /\ marks.sequence = -1
    /\ \A k \in 1 .. Len(wire.accepted) : wire.accepted[k].convertible
    /\ ~snd.receiver_dropped

\* C15: for contiguous depth deltas and a snapshot with lastUpdateId = L, the
\* LimitUpdates notifications emitted are the snapshot, once and first, then
\* exactly the deltas (buffered or live) with u > L, in arrival order; a
\* delta with u <= L is never emitted, and nothing is before the snapshot.
C15_SnapshotThenNewerDeltas ==
    clean_stream =>
        limit_updates(snd.queue) =
            IF marks.lastUpdateId = -1 THEN <<>>
            ELSE <<0>> \o newer(wire.accepted, marks.lastUpdateId)

\* The depth messages whose updates are in the consumer's queue.
emitted_deltas ==
    {k \in 1 .. Len(wire.accepted) :
        \E i \in 1 .. Len(snd.queue) :
            /\ snd.queue[i].kind = "LimitUpdates"
            /\ snd.queue[i].id = wire.accepted[k].id}

\* C16: after reconciliation with a snapshot of lastUpdateId = L, every
\* sequence number above L and up to the latest received u is covered by an
\* emitted delta, and the first emitted delta has U <= L + 1.
C16_CatchUpHasNoGap ==
    (clean_stream /\ marks.lastUpdateId /= -1) =>
        /\ \A n \in (marks.lastUpdateId + 1) .. previous_u :
              \E k \in emitted_deltas :
                  wire.accepted[k].U <= n /\ n <= wire.accepted[k].u
        /\ \A k \in emitted_deltas :
              (\A j \in emitted_deltas : k <= j) =>
                  wire.accepted[k].U <= marks.lastUpdateId + 1

is_trade(notif) == notif.kind = "Trade"

\* A LimitUpdates notification made from a depth message, not the snapshot.
is_delta(notif) == notif.kind = "LimitUpdates" /\ notif.id /= 0

trades_in_receive_order ==
    \A i, j \in 1 .. Len(snd.queue) :
        (is_trade(snd.queue[i]) /\ is_trade(snd.queue[j]) /\ i < j)
            => snd.queue[i].id < snd.queue[j].id

\* C17 as stated: trades are emitted in receive order, and an emitted trade
\* precedes an emitted delta in the consumer's queue if and only if it
\* arrived before that delta, buffered deltas included.
C17_TradeBeforeDeltaIffArrivedBefore ==
    /\ trades_in_receive_order
    /\ \A i, j \in 1 .. Len(snd.queue) :
          (is_trade(snd.queue[i]) /\ is_delta(snd.queue[j]))
              => (i < j <=> snd.queue[i].id < snd.queue[j].id)

\* C17, amended: trades are emitted in receive order, and an emitted trade
\* precedes an emitted delta if and only if it arrived before that delta, or
\* the delta was buffered and the trade arrived before the snapshot was
\* processed.
C17_TradeOvertakesBufferedDelta ==
    /\ trades_in_receive_order
    /\ \A i, j \in 1 .. Len(snd.queue) :
          (is_trade(snd.queue[i]) /\ is_delta(snd.queue[j]))
              => (i < j <=> \/ snd.queue[i].id < snd.queue[j].id
                           \/ /\ snd.queue[j].id <= marks.received
                              /\ snd.queue[i].id <= marks.received)

\* A trade that arrived after a buffered delta is before it in the queue,
\* and a trade is in the queue after a delta.
C17_Witness ==
    \E i, j, k, l \in 1 .. Len(snd.queue) :
        /\ is_trade(snd.queue[i]) /\ is_delta(snd.queue[j])
        /\ i < j /\ snd.queue[i].id > snd.queue[j].id
        /\ is_delta(snd.queue[k]) /\ is_trade(snd.queue[l])
        /\ k < l

\* C18: when the snapshot request completed with an error, its Sender went
\* away without sending, or the snapshot does not convert, the poll closes
\* the session and neither the snapshot nor a buffered delta is emitted: the
\* queue holds no LimitUpdates and nothing is added to it.
C18_SnapshotFailureCloses ==
    marks.snapshot /= -1 =>
        /\ out.shutdown
        /\ limit_updates(snd.queue) = <<>>
        /\ Len(snd.queue) = marks.snapshot

\* The poll met a failed snapshot while two deltas were buffered and the
\* consumer was listening.
C18_Witness ==
    /\ marks.snapshot /= -1
    /\ Len(wire.accepted) >= 2
    /\ \A k \in 1 .. Len(wire.accepted) : wire.accepted[k].convertible
    /\ ~snd.receiver_dropped

\* C19: a message with a malformed payload or an unrecognised event type
\* emits nothing, leaves previous_u and book_snapshot_state as they were and
\* does not close the session: the handler after it is the handler before
\* it, so what follows is processed as if the message had not arrived.
C19_BadMessageDropped == [][wire'.bad => handler' = handler]_vars

\* Such a message arrived while the session was waiting for the snapshot,
\* with a trade already forwarded.
C19_Witness ==
    /\ wire.bad
    /\ book_snapshot_state.tag = "Waiting"
    /\ previous_u /= NoU
    /\ snd.queue /= <<>>
    /\ ~out.shutdown

\* C20: every error other than a payload parse error closes the session; a
\* trade or depth message whose price or size fails conversion closes it and
\* the consumer's queue gets nothing after those it held when the message
\* arrived.
C20_ConversionErrorCloses ==
    /\ (marks.conversion /= -1 \/ marks.sequence /= -1 \/ marks.snapshot /= -1)
           => out.shutdown
    /\ marks.conversion /= -1 => Len(snd.queue) = marks.conversion

\* C21: after the consumer dropped its end of the notification channel, the
\* first attempt to send a notification (a trade, a live depth update, the
\* reconciliation) fails: nothing is added to the queue, and the session is
\* shut down.
C21_SendAfterDropShutsDown ==
    snd.receiver_dropped =>
        /\ Len(snd.queue) = marks.dropped
        /\ wire.emits => out.shutdown

\* The consumer went away while deltas were buffered, and the reconciliation
\* then tried to send.
C21_Witness ==
    /\ snd.receiver_dropped
    /\ wire.emits
    /\ marks.lastUpdateId /= -1
    /\ Len(wire.accepted) >= 2

\* C22: a BOOK_SNAPSHOT timeout is pending only while the snapshot state is
\* Waiting, so the handler of that timeout never runs in the state None or
\* Ok and its panic is never reached.
C22_PollOnlyWhileWaiting ==
    /\ BOOK_SNAPSHOT \in out.timeouts => book_snapshot_state.tag = "Waiting"
    /\ ~out.panicked

\* The poll fired in Waiting, found the snapshot and left the state Ok with
\* no timeout pending, and messages arrived after it.
C22_Witness ==
    /\ book_snapshot_state.tag = "Ok"
    /\ BOOK_SNAPSHOT \notin out.timeouts
    /\ marks.lastUpdateId /= -1
    /\ wire.received > marks.received

\* C23: every frame arms a new EXPIRE timeout and cancels the one armed
\* before, so that at most one EXPIRE timeout is pending, and it is the one
\* armed since the last frame; the connection is closed by an EXPIRE timeout
\* only if no frame arrived since that timeout was armed.
C23_OneExpireSinceLastFrame ==
    /\ Cardinality(out.expire) <= 1
    /\ conn.opened /\ ~out.closed =>
           /\ out.expire = {timeout}
           /\ conn.armed[timeout] = conn.frames
    /\ out.closed => conn.expired = conn.frames

\* Frames arrived, each replacing the EXPIRE timeout, and the last one armed
\* fired and closed the connection.
C23_Witness ==
    /\ out.closed
    /\ conn.frames >= 2
    /\ conn.expired = conn.frames
    /\ out.handles = conn.frames + 1

\* The total size resting at the prices lo .. hi.
RECURSIVE resting_between(_, _, _)
resting_between(self, lo, hi) ==
    IF lo > hi THEN 0
    ELSE sum_sizes(chain_at(self, lo)) + resting_between(self, lo + 1, hi)

\* The size of the entry with id `id` at price p, 0 when there is none.
size_of_entry(self, p, id) ==
    LET c == chain_at(self, p)
    IN  IF \E k \in 1 .. Len(c) : c[k].id = id
        THEN (CHOOSE e \in {c[k] : k \in 1 .. Len(c)} : e.id = id).size
        ELSE 0

min(a, b) == IF a <= b THEN a ELSE b

\* What a marketable order can reach: the size resting from the opposite
\* best limit up to its own price.
reachable_size(self, order) ==
    IF order.side = "Buy"
    THEN resting_between(self, self.best_ask, order.price)
    ELSE resting_between(self, order.price, self.best_bid)

\* C24: a marketable order of size s at price p takes from the resting
\* entries min(s, the size resting between the opposite best limit and p);
\* the rest of s, if any, is inserted at p, and nothing is inserted when
\* there is no rest.
C24_ExecutedAndResidual ==
    (called /\ crossing_range(pre, last.order).marketable) =>
        LET executed == min(last.order.size, reachable_size(pre, last.order))
            residual == last.order.size - executed
        IN  /\ last.taken = executed
            /\ sum_amounts(last.log) = executed
            /\ IF residual > 0
               THEN /\ last.ret /= NoEntryId
                    /\ size_of_entry(engine, last.order.price, last.ret)
                           = residual
               ELSE last.ret = NoEntryId
            /\ resting_between(engine, 0, PMax)
                   = resting_between(pre, 0, PMax) - executed + residual

\* A buy took everything at two ask prices and rested what was left of it.
C24_Witness ==
    /\ called
    /\ last.order.side = "Buy"
    /\ crossing_range(pre, last.order).marketable
    /\ pre.best_ask < last.order.price
    /\ last.taken >= 2
    /\ last.taken < last.order.size
    /\ last.ret /= NoEntryId

\* The prices an order must not trade at: above its price for a buy, below
\* it for a sell.
beyond(order) ==
    IF order.side = "Buy"
    THEN {q \in Prices : q > order.price}
    ELSE {q \in Prices : q < order.price}

\* C25: a buy never reduces or removes a resting entry at a price above its
\* own, a sell never one at a price below its own: the chains at those
\* prices are as they were before the call and the log has no entry there.
C25_NoTradeThrough ==
    called =>
        /\ \A q \in beyond(last.order) : chain_at(engine, q) = chain_at(pre, q)
        /\ \A k \in 1 .. Len(last.log) :
               last.log[k].price \notin beyond(last.order)

\* A sell larger than the bids at its price or better traded while a bid
\* rested below its price.
C25_Witness ==
    /\ last_crossed
    /\ last.order.side = "Sell"
    /\ last.ret /= NoEntryId
    /\ \E q \in beyond(last.order) : chain_at(pre, q) /= <<>>

\* C26: a limit() call with an order that is not marketable changes no
\* resting entry, appends one entry with the order's size at the tail of the
\* chain at its price, leaves the best limit of the opposite side as it was
\* and moves the best limit of its own side only to a better price.
C26_InsertFrame ==
    (called /\ ~crossing_range(pre, last.order).marketable) =>
        /\ \A q \in Prices \ {last.order.price} :
               chain_at(engine, q) = chain_at(pre, q)
        /\ chain_at(engine, last.order.price)
               = Append(chain_at(pre, last.order.price),
                        [id |-> last.ret, size |-> last.order.size])
        /\ IF last.order.side = "Buy"
           THEN /\ best_ask = pre.best_ask
                /\ best_bid = IF last.order.price > pre.best_bid
                              THEN last.order.price ELSE pre.best_bid
           ELSE /\ best_bid = pre.best_bid
                /\ best_ask = IF last.order.price < pre.best_ask
                              THEN last.order.price ELSE pre.best_ask

\* An order came to rest behind another at its price, which is not the best
\* of its side.
C26_Witness ==
    /\ called
    /\ ~crossing_range(pre, last.order).marketable
    /\ chain_at(pre, last.order.price) /= <<>>
    /\ Len(chain_at(engine, last.order.price)) = 2
    /\ last.order.side = "Buy"
    /\ best_bid > last.order.price

\* The sides of the orders behind the entries resting at price p.
sides_at(self, p) ==
    {placed[chain_at(self, p)[k].id].side : k \in 1 .. Len(chain_at(self, p))}

\* C30: the entries store no side, yet every entry resting at a price up to
\* best_bid came from a buy and every entry resting at best_ask or above from
\* a sell, so no price holds entries of both sides; and every entry an
\* incoming order took size from came from an order of the opposite side.
C30_SideSeparation ==
    /\ \A p \in Prices :
          /\ p <= best_bid => sides_at(engine, p) \subseteq {"Buy"}
          /\ p >= best_ask => sides_at(engine, p) \subseteq {"Sell"}
          /\ Cardinality(sides_at(engine, p)) <= 1
          /\ (p > best_bid /\ p < best_ask) => chain_at(engine, p) = <<>>
    /\ \A k \in 1 .. Len(last.log) :
          /\ last.log[k].id \in DOMAIN placed
          /\ placed[last.log[k].id].side /= last.order.side

\* Bids and asks rest, and the last order took from an entry of the other
\* side.
C30_Witness ==
    /\ last_crossed
    /\ \E p \in Prices : sides_at(engine, p) = {"Buy"}
    /\ \E p \in Prices : sides_at(engine, p) = {"Sell"}

\* The session waits for the snapshot and is not shut down.
waiting == book_snapshot_state.tag = "Waiting" /\ ~out.shutdown

\* The request of the snapshot completed with Ok.
fetched_ok ==
    /\ book_snapshot_state.rcv.state = "Ready"
    /\ book_snapshot_state.rcv.result.ok

\* The session is in the state Ok and the consumer's queue holds the
\* snapshot.
ok_with_snapshot ==
    /\ book_snapshot_state.tag = "Ok"
    /\ \E i \in 1 .. Len(snd.queue) : snd.queue[i] = LimitUpdatesNotif(0)

\* A poll that finds the request not completed arms the timeout again and
\* leaves the state Waiting with the same buffer.
not_ready_poll_rearms ==
    [][(OnTimeout /\ book_snapshot_state.rcv.state = "Pending") =>
           /\ book_snapshot_state' = book_snapshot_state
           /\ BOOK_SNAPSHOT \in out'.timeouts
           /\ ~out'.shutdown]_vars

\* C27 as stated: from Waiting, not closed, with the request completed with
\* Ok, the session reaches the state Ok with the snapshot emitted.
C27_FetchedLeadsToOk ==
    /\ (waiting /\ fetched_ok) ~> ok_with_snapshot
    /\ not_ready_poll_rearms

\* C27: from Waiting, not closed, with the request completed with Ok and a
\* snapshot that converts, the session reaches the state Ok with the
\* snapshot emitted unless the consumer drops its end of the channel
\* before; a poll that finds the request not completed arms the timeout
\* again and keeps Waiting with the buffer.
C27_ConvertibleLeadsToOk ==
    /\ (waiting /\ fetched_ok /\ book_snapshot_state.rcv.result.convertible)
           ~> (ok_with_snapshot \/ snd.receiver_dropped)
    /\ not_ready_poll_rearms

\* The snapshot reached a listening consumer after two deltas were
\* buffered.
C27_Witness ==
    /\ ok_with_snapshot
    /\ ~snd.receiver_dropped
    /\ ~out.shutdown
    /\ Len(wire.accepted) = 2
    /\ marks.received = 2

\* Where the updates of a depth message are: in the buffer, in the
\* consumer's queue (how many times), dropped by the filter of the
\* reconciliation.
buffered(m) ==
    \E i \in 1 .. Len(book_snapshot_state.events) :
        book_snapshot_state.events[i].updates = m.id

times_emitted(m) ==
    Cardinality({i \in 1 .. Len(snd.queue) :
                    snd.queue[i] = LimitUpdatesNotif(m.id)})

filtered(m) ==
    /\ marks.lastUpdateId /= -1
    /\ m.id <= marks.received
    /\ m.u <= marks.lastUpdateId

\* C28: while the session runs, every depth message that passed the sequence
\* check and advanced previous_u is in exactly one place: its updates are in
\* the buffer, or were dropped by the filter u > L, or were emitted once;
\* none is in two places and none is lost.
C28_DeltaHandledOnce ==
    ~out.shutdown =>
        \A k \in 1 .. Len(wire.accepted) :
            LET m == wire.accepted[k]
            IN  (IF buffered(m) THEN 1 ELSE 0) + times_emitted(m)
                    + (IF filtered(m) THEN 1 ELSE 0) = 1

\* The depth messages for which parse_message returned the updates.
converted == SelectSeq(wire.accepted, LAMBDA m : m.convertible)

\* C29: a session initiates at most one snapshot request, and it does so on
\* the first depth message whose updates parse_message returns; nothing
\* later, a failed request or a disconnected Sender included, initiates a
\* second one.
C29_OneFetch ==
    /\ marks.fetches <= 1
    /\ marks.fetches = 1 <=> converted /= <<>>
    /\ marks.fetches = 1 => marks.fetch_id = converted[1].id

\* The request failed, the state is None again, and only one request was
\* initiated, by the second depth message, the first having failed to
\* convert.
C29_Witness ==
    /\ marks.fetches = 1
    /\ marks.snapshot /= -1
    /\ book_snapshot_state.tag = "None"
    /\ Len(wire.accepted) >= 2
    /\ ~wire.accepted[1].convertible

\* The arena indices reachable from the links of the price limits.
reachable_indices(self) ==
    UNION {{indices_at(self, p)[k] : k \in 1 .. Len(indices_at(self, p))}
              : p \in Prices}

allocated_indices(ar) == {i \in 1 .. Len(ar.slots) : ar.slots[i].used}

\* C31: the arena leaks nothing: the allocated entries are exactly the
\* entries reachable from the links of the price limits, each reachable from
\* one limit only; every entry the last call exhausted is freed, and the
\* free list holds exactly the slots that are not allocated.
C31_NoArenaLeak ==
    /\ allocated_indices(entries) = reachable_indices(engine)
    /\ Cardinality(allocated_indices(entries)) = count_resting(engine, 0)
    /\ \A k \in 1 .. Len(last.log) :
          last.log[k].exhausted =>
             ~\E i \in allocated_indices(entries) :
                 entries.slots[i].id = last.log[k].id
    /\ {entries.free[k] : k \in 1 .. Len(entries.free)}
          = (1 .. Len(entries.slots)) \ allocated_indices(entries)

\* Entries were exhausted and freed, a freed slot was allocated again, and
\* entries are resting.
C31_Witness ==
    /\ \E k \in 1 .. Len(last.log) : last.log[k].exhausted
    /\ last.ret /= NoEntryId
    /\ Cardinality(allocated_indices(entries)) >= 2
    /\ Len(entries.slots) < totals.rested

\* C32: every entry reachable from the link of a price limit has a size
\* above 0, so size_at_price is above 0 where the link is present, and it is
\* 0 exactly where the link is None or the price limit absent.
C32_RestingSizesPositive ==
    \A p \in Prices :
        /\ \A k \in 1 .. Len(indices_at(engine, p)) :
              /\ allocated(entries, indices_at(engine, p)[k])
              /\ entries.slots[indices_at(engine, p)[k]].size > 0
        /\ price_limits[p].link.some => size_at_price(engine, p) > 0
        /\ size_at_price(engine, p) = 0
              <=> (~price_limits[p].present \/ ~price_limits[p].link.some)

\* An order emptied one price limit, whose link is None now, stopped inside
\* an entry of the next, and was filled completely.
C32_Witness ==
    /\ last.ret = NoEntryId
    /\ \E p, q \in Prices :
          /\ price_limits[p].present /\ ~price_limits[p].link.some
          /\ sum_amounts_at(last.log, p) > 0
          /\ sum_amounts_at(last.log, q) > 0
          /\ price_limits[q].link.some
          /\ size_at_price(engine, q) < size_at_price(pre, q)

====
